---- MODULE Spec2Model ----
(***************************************************************************)
(* Model of the MUT Improv Games catalog browser (src/js/search.js,        *)
(* src/js/app.js, src/js/game-details.js): the in-memory catalog, its      *)
(* loader, the query engine (searchGames, filterGames), the handlers of    *)
(* the search page that drive it, and the initialisation of the two pages. *)
(*                                                                         *)
(* JavaScript values are represented as follows.                           *)
(*   - A string is a sequence of one-character strings; '' is <<>>.        *)
(*   - An object is a record; a property the object does not have          *)
(*     (undefined) is a field missing from the record's DOMAIN.            *)
(*   - A tip is a tagged value: [type |-> "string", value |-> s] for a     *)
(*     plain string (typeof tip === 'string'), [type |-> "object", ...]    *)
(*     with optional role and tips for a structured tip.                   *)
(*   - The id of a game is an opaque string, written as a positive number. *)
(*   - difficulty and audienceParticipation are never searched, so they    *)
(*     are opaque values: "" is the empty string; "true", "false" and      *)
(*     "null" stand for the JavaScript values true, false and null.        *)
(*   - A Set is the sequence of its values in insertion order, without     *)
(*     repetition; the value undefined in it is the sentinel Undefined.    *)
(*   - loadGamesData also writes game.categoryId (search.js:291); no code  *)
(*     reads that property, and the records of the model leave it out.     *)
(*   - A call that runs to completion yields [threw |-> FALSE,             *)
(*     value |-> v]; one that raises a TypeError yields ThrowTypeError.    *)
(***************************************************************************)
EXTENDS Integers, Sequences, FiniteSets, TLC

VARIABLES
    allGames,         \* search.js:266  let allGames
    filteredGames,    \* search.js:267  let filteredGames
    searchInput,      \* search.js:7    searchInput.value
    categoryFilter,   \* search.js:8    categoryFilter.value
    difficultyFilter, \* search.js:9    difficultyFilter.value
    rendered,         \* search.js:130  the list last handed to renderGames
    timeout,          \* search.js:241  the timer of each debounced listener
                      \*                attached: "none" or "pending"
    handler,          \* the handler that ran in the last step and how it ended
    call,             \* the last direct call of window.GameData.* and its outcome
    categories,       \* search.js:268  let categories = new Set()
    response,         \* search.js:275  what the last fetch of the document gave
    dataLoaded,       \* app.js:17      what the last loadGamesData returned
    readyState,       \* document.readyState: "loading" until DOMContentLoaded
    awaiting,         \* search.js:275  the loads suspended at each await
    options,          \* search.js:57   the options appended to the category selector
    clickListeners,   \* app.js:48      the click listeners on the theme toggle
    dataTheme,        \* app.js:59      the data-theme attribute of the document
    localStorage,     \* app.js:60      the theme item of the local storage
    location,         \* game-details.js:24  the page and the id of its URL
    gameContent,      \* game-details.js:232 what the game page displays
    burst             \* the clock of the debounced listener and its run count

\* The state loadGamesData works on, besides allGames and filteredGames.
loadVars == <<categories, response, dataLoaded>>

\* The state of the document and of the pending loads.
pageVars == <<readyState, awaiting, options, clickListeners, dataTheme,
              localStorage, location, gameContent>>

vars == <<allGames, filteredGames, searchInput, categoryFilter, difficultyFilter,
          rendered, timeout, handler, call, categories, response, dataLoaded,
          readyState, awaiting, options, clickListeners, dataTheme,
          localStorage, location, gameContent, burst>>

(***************************************************************************)
(* Bounds of the model.                                                    *)
(***************************************************************************)
MaxGames == 2
MaxQueryLen == 3
MaxTyped == 2

(***************************************************************************)
(* Strings.                                                                *)
(***************************************************************************)
Chars == {"a", "A", "b", " "}

\* String.prototype.toLowerCase on one character.
ToLowerChar(c) == IF c = "A" THEN "a" ELSE IF c = "B" THEN "b" ELSE c

\* String.prototype.toLowerCase.
ToLowerCase(s) == [i \in 1..Len(s) |-> ToLowerChar(s[i])]

RECURSIVE TrimStart(_)
TrimStart(s) == IF s # <<>> /\ Head(s) = " " THEN TrimStart(Tail(s)) ELSE s

RECURSIVE TrimEnd(_)
TrimEnd(s) ==
    IF s # <<>> /\ s[Len(s)] = " " THEN TrimEnd(SubSeq(s, 1, Len(s) - 1)) ELSE s

\* String.prototype.trim.
Trim(s) == TrimEnd(TrimStart(s))

\* String.prototype.endsWith in the place of includes: t ends s.
EndsWith(s, t) ==
    Len(t) <= Len(s) /\ SubSeq(s, Len(s) - Len(t) + 1, Len(s)) = t

\* String.prototype.includes: t occurs in s as a contiguous substring.
Includes(s, t) ==
    \E i \in 0..(Len(s) - Len(t)) : SubSeq(s, i + 1, i + Len(t)) = t

\* Array.prototype.some over a list of strings with the test
\* x => x.toLowerCase().includes(searchTerm).
SomeIncludes(list, searchTerm) ==
    \E i \in 1..Len(list) : Includes(ToLowerCase(list[i]), searchTerm)

\* The strings of length at most n.
RECURSIVE StringsUpTo(_)
StringsUpTo(n) ==
    IF n = 0 THEN {<<>>}
    ELSE LET shorter == StringsUpTo(n - 1)
         IN shorter \cup {Append(s, c) : s \in shorter, c \in Chars}

Queries == StringsUpTo(MaxQueryLen)

(***************************************************************************)
(* String.prototype.localeCompare on a.name and b.name: the comparator of  *)
(* the catalog sort.  Letters compare first without regard to case (space  *)
(* before letters); strings equal up to case are ordered lower case first. *)
(***************************************************************************)
CharRank(c) == IF c = " " THEN 0 ELSE IF ToLowerChar(c) = "a" THEN 1 ELSE 2

CaseRank(c) == IF c = ToLowerChar(c) THEN 0 ELSE 1

\* Lexicographic comparison of two sequences of ranks: -1, 0 or 1.
RECURSIVE LexCompare(_, _)
LexCompare(s, t) ==
    IF s = <<>> /\ t = <<>> THEN 0
    ELSE IF s = <<>> THEN -1
    ELSE IF t = <<>> THEN 1
    ELSE IF Head(s) < Head(t) THEN -1
    ELSE IF Head(s) > Head(t) THEN 1
    ELSE LexCompare(Tail(s), Tail(t))

CharRanks(s) == [i \in 1..Len(s) |-> CharRank(s[i])]

CaseRanks(s) == [i \in 1..Len(s) |-> CaseRank(s[i])]

LocaleCompare(s, t) ==
    IF LexCompare(CharRanks(s), CharRanks(t)) # 0
    THEN LexCompare(CharRanks(s), CharRanks(t))
    ELSE LexCompare(CaseRanks(s), CaseRanks(t))

(***************************************************************************)
(* The records of the source document, data/mutgames.json, after           *)
(* loadGamesData has attached category to each.  Every searchable field    *)
(* occurs in some record as the only field holding the letter "a".         *)
(***************************************************************************)
NameAb == <<"A", "b">>
NameBb == <<"b", "b">>
TextA == <<"b", "a", " ", "A">>
CatA == <<"A">>
CatB == <<"b">>

StringTip(s) == [type |-> "string", value |-> s]

PlayerCount(lo, hi, opt) == [min |-> lo, max |-> hi, optimal |-> opt]

Game1 ==
    [id |-> 1, name |-> NameAb, category |-> CatB, difficulty |-> "beginner",
     playerCount |-> PlayerCount(2, 3, 2), audienceParticipation |-> "true"]

Game2 ==
    [id |-> 2, name |-> NameBb, setup |-> [description |-> TextA],
     category |-> CatB, difficulty |-> "advanced",
     playerCount |-> PlayerCount(1, 1, 1), audienceParticipation |-> "false"]

Game3 ==
    [id |-> 3, name |-> NameBb, setup |-> [duration |-> NameBb],
     rules |-> <<NameBb, TextA>>, category |-> CatB, difficulty |-> "beginner",
     playerCount |-> PlayerCount(1, 3, 2)]

Game4 ==
    [id |-> 4, name |-> NameBb, tips |-> <<StringTip(NameBb), StringTip(TextA)>>,
     category |-> CatB, difficulty |-> "advanced",
     playerCount |-> PlayerCount(2, 2, 2), audienceParticipation |-> "true"]

Game5 ==
    [id |-> 5, name |-> NameBb,
     tips |-> <<[type |-> "object", role |-> NameBb, tips |-> <<NameBb, TextA>>]>>,
     category |-> CatB, difficulty |-> "beginner",
     playerCount |-> PlayerCount(1, 2, 1), audienceParticipation |-> "false"]

Game6 ==
    [id |-> 6, name |-> NameBb,
     tips |-> <<[type |-> "object", role |-> <<>>, tips |-> <<TextA>>]>>,
     category |-> CatB, difficulty |-> "beginner",
     playerCount |-> PlayerCount(2, 3, 3), audienceParticipation |-> "true"]

Game7 ==
    [id |-> 7, name |-> NameBb,
     tips |-> <<[type |-> "object", role |-> TextA],
                [type |-> "object", role |-> TextA, tips |-> <<NameBb>>]>>,
     category |-> CatB, difficulty |-> "advanced",
     playerCount |-> PlayerCount(3, 3, 3), audienceParticipation |-> "false"]

Game8 ==
    [id |-> 8, name |-> NameBb, rules |-> <<>>, examples |-> <<TextA>>,
     category |-> CatB, difficulty |-> "beginner",
     playerCount |-> PlayerCount(1, 1, 1)]

Game9 ==
    [id |-> 9, name |-> NameBb, tags |-> <<NameBb, TextA>>, category |-> CatB,
     difficulty |-> "advanced", playerCount |-> PlayerCount(2, 3, 2),
     audienceParticipation |-> "true"]

Game10 ==
    [id |-> 10, name |-> NameBb, category |-> CatA, difficulty |-> "beginner",
     playerCount |-> PlayerCount(1, 3, 2), audienceParticipation |-> "false"]

Game11 ==
    [id |-> 11, name |-> NameBb, difficulty |-> "advanced", tags |-> <<>>]

Game12 ==
    [id |-> 12, rules |-> <<TextA>>, category |-> CatA, difficulty |-> "beginner",
     playerCount |-> PlayerCount(2, 2, 2)]

\* The document's games, listed in the order of the catalog sort.
Document ==
    <<Game1, Game2, Game3, Game4, Game5, Game6, Game7, Game8, Game9, Game10,
      Game11, Game12>>

\* The games of the search page's catalogs.
PageDocument == <<Game1, Game2, Game10, Game11, Game12>>

RECURSIVE Pick(_, _)
Pick(doc, indices) ==
    IF indices = {} THEN <<>>
    ELSE LET m == CHOOSE i \in indices : \A j \in indices : i <= j
         IN <<doc[m]>> \o Pick(doc, indices \ {m})

\* What the catalog sort leaves: each record is compared with its successor,
\* which raises a TypeError when a.name is undefined; a catalog of one record
\* is never compared.
IsSortedByName(games) ==
    \A i \in 1..(Len(games) - 1) :
        /\ "name" \in DOMAIN games[i]
        /\ "name" \in DOMAIN games[i + 1]
        /\ LocaleCompare(games[i].name, games[i + 1].name) <= 0

\* The catalogs a successful load can leave: at most MaxGames records of doc.
CatalogsOf(doc) ==
    {c \in {Pick(doc, ix) : ix \in {s \in SUBSET (1..Len(doc)) : Cardinality(s) <= MaxGames}} :
        IsSortedByName(c)}

Catalogs == CatalogsOf(Document)

PageCatalogs == CatalogsOf(PageDocument)

(***************************************************************************)
(* The query engine: searchGames and filterGames.                          *)
(***************************************************************************)
ThrowTypeError == [threw |-> TRUE, value |-> <<>>]

Return(v) == [threw |-> FALSE, value |-> v]

\* obj.f is not undefined.
Has(obj, f) == f \in DOMAIN obj

\* obj.f is a truthy string: present and not ''.
TruthyString(obj, f) == Has(obj, f) /\ obj[f] # <<>>

\* obj.f is a truthy number: present and not 0.
TruthyNumber(obj, f) == Has(obj, f) /\ obj[f] # 0

\* The elements of arr whose outcome is "true", in the order of arr.
RECURSIVE KeepTrue(_, _)
KeepTrue(arr, outcomes) ==
    IF arr = <<>> THEN <<>>
    ELSE LET rest == KeepTrue(Tail(arr), Tail(outcomes))
         IN IF Head(outcomes) = "true" THEN <<Head(arr)>> \o rest ELSE rest

\* Array.prototype.filter, given the callback's outcome on each element:
\* "true", "false" or "throw" (the exception leaves filter).
ArrayFilter(arr, outcomes) ==
    IF \E i \in 1..Len(arr) : outcomes[i] = "throw" THEN ThrowTypeError
    ELSE Return(KeepTrue(arr, outcomes))

\* The callback of game.tips.some.
TipMatches(tip, searchTerm) ==
    IF tip.type = "string" THEN Includes(ToLowerCase(tip.value), searchTerm)
    ELSE IF TruthyString(tip, "role") /\ Has(tip, "tips")
    THEN SomeIncludes(tip.tips, searchTerm)
    ELSE FALSE

\* The callback of allGames.filter in searchGames.
SearchCallback(game, searchTerm) ==
    IF ~Has(game, "name") THEN "throw"
    ELSE IF Includes(ToLowerCase(game.name), searchTerm) THEN "true"
    ELSE IF /\ Has(game, "setup")
            /\ TruthyString(game.setup, "description")
            /\ Includes(ToLowerCase(game.setup.description), searchTerm) THEN "true"
    ELSE IF Has(game, "rules") /\ SomeIncludes(game.rules, searchTerm) THEN "true"
    ELSE IF /\ Has(game, "tips")
            /\ \E i \in 1..Len(game.tips) : TipMatches(game.tips[i], searchTerm)
         THEN "true"
    ELSE IF Has(game, "examples") /\ SomeIncludes(game.examples, searchTerm) THEN "true"
    ELSE IF Has(game, "tags") /\ SomeIncludes(game.tags, searchTerm) THEN "true"
    ELSE IF /\ TruthyString(game, "category")
            /\ Includes(ToLowerCase(game.category), searchTerm) THEN "true"
    ELSE "false"

\* searchGames without the test of the trimmed query: only '' is empty.
SearchGamesNoTrimTest(query) ==
    IF query = <<>> THEN Return(allGames)
    ELSE LET searchTerm == Trim(ToLowerCase(query))
         IN ArrayFilter(allGames,
                [i \in 1..Len(allGames) |-> SearchCallback(allGames[i], searchTerm)])

\* searchGames collecting its matches last match first.
SearchGamesLastFirst(query) ==
    IF query = <<>> \/ Trim(query) = <<>> THEN Return(allGames)
    ELSE LET searchTerm == Trim(ToLowerCase(query))
             found == ArrayFilter(allGames,
                [i \in 1..Len(allGames) |-> SearchCallback(allGames[i], searchTerm)])
         IN [threw |-> found.threw,
             value |-> [i \in 1..Len(found.value) |->
                           found.value[Len(found.value) + 1 - i]]]

\* searchGames matching the fields against the query as typed: trimmed but
\* not lower-cased.
SearchGamesQueryAsTyped(query) ==
    IF query = <<>> \/ Trim(query) = <<>> THEN Return(allGames)
    ELSE LET searchTerm == Trim(query)
         IN ArrayFilter(allGames,
                [i \in 1..Len(allGames) |-> SearchCallback(allGames[i], searchTerm)])

\* searchGames with find in the place of filter: the first match only.
SearchGamesFirstMatch(query) ==
    IF query = <<>> \/ Trim(query) = <<>> THEN Return(allGames)
    ELSE LET searchTerm == Trim(ToLowerCase(query))
             found == ArrayFilter(allGames,
                [i \in 1..Len(allGames) |-> SearchCallback(allGames[i], searchTerm)])
         IN [threw |-> found.threw,
             value |-> SubSeq(found.value, 1, IF found.value = <<>> THEN 0 ELSE 1)]

SearchGames(query) ==
    IF query = <<>> \/ Trim(query) = <<>> THEN Return(allGames)
    ELSE LET searchTerm == Trim(ToLowerCase(query))
         IN ArrayFilter(allGames,
                [i \in 1..Len(allGames) |-> SearchCallback(allGames[i], searchTerm)])

\* The player count test of the filterGames callback, reached when the
\* category and difficulty tests have passed.
PlayerCountCallback(game, filters) ==
    IF TruthyNumber(filters, "minPlayers") /\ ~Has(game, "playerCount") THEN "throw"
    ELSE IF TruthyNumber(filters, "minPlayers")
            /\ game.playerCount.min < filters.minPlayers THEN "false"
    ELSE IF TruthyNumber(filters, "maxPlayers") /\ ~Has(game, "playerCount") THEN "throw"
    ELSE IF TruthyNumber(filters, "maxPlayers")
            /\ game.playerCount.max > filters.maxPlayers THEN "false"
    ELSE "true"

\* The audience participation test written with a truthiness test of the
\* filter value, as the player count tests are.
AudienceCallbackTruthy(game, filters) ==
    IF /\ Has(filters, "audienceParticipation")
       /\ filters.audienceParticipation = "true"
       /\ ~(/\ Has(game, "audienceParticipation")
            /\ game.audienceParticipation = filters.audienceParticipation)
    THEN "false"
    ELSE "true"

\* The audience participation test of the filterGames callback.
AudienceCallback(game, filters) ==
    IF /\ Has(filters, "audienceParticipation")
       /\ filters.audienceParticipation # "null"
       /\ ~(/\ Has(game, "audienceParticipation")
            /\ game.audienceParticipation = filters.audienceParticipation)
    THEN "false"
    ELSE "true"

\* The filterGames callback without the tests for '': the selectors' "all"
\* value is compared like any other.
FilterCallbackNoEmptyTest(game, filters) ==
    IF /\ Has(filters, "category")
       /\ ~(Has(game, "category") /\ game.category = filters.category) THEN "false"
    ELSE IF /\ Has(filters, "difficulty")
            /\ ~(Has(game, "difficulty") /\ game.difficulty = filters.difficulty)
         THEN "false"
    ELSE IF PlayerCountCallback(game, filters) # "true"
         THEN PlayerCountCallback(game, filters)
    ELSE AudienceCallback(game, filters)

\* The filterGames callback comparing the categories without regard to letter
\* case.
FilterCallbackAnyCase(game, filters) ==
    IF /\ TruthyString(filters, "category")
       /\ ~(/\ Has(game, "category")
            /\ ToLowerCase(game.category) = ToLowerCase(filters.category))
    THEN "false"
    ELSE IF /\ Has(filters, "difficulty") /\ filters.difficulty # ""
            /\ ~(Has(game, "difficulty") /\ game.difficulty = filters.difficulty)
         THEN "false"
    ELSE IF PlayerCountCallback(game, filters) # "true"
         THEN PlayerCountCallback(game, filters)
    ELSE AudienceCallback(game, filters)

\* The callback of games.filter in filterGames.
FilterCallback(game, filters) ==
    IF /\ TruthyString(filters, "category")
       /\ ~(Has(game, "category") /\ game.category = filters.category) THEN "false"
    ELSE IF /\ Has(filters, "difficulty") /\ filters.difficulty # ""
            /\ ~(Has(game, "difficulty") /\ game.difficulty = filters.difficulty)
         THEN "false"
    ELSE IF PlayerCountCallback(game, filters) # "true"
         THEN PlayerCountCallback(game, filters)
    ELSE AudienceCallback(game, filters)

\* filterGames collecting the kept games last game first.
FilterGamesLastFirst(games, filters) ==
    LET kept == ArrayFilter(games,
                    [i \in 1..Len(games) |-> FilterCallback(games[i], filters)])
    IN [threw |-> kept.threw,
        value |-> [i \in 1..Len(kept.value) |-> kept.value[Len(kept.value) + 1 - i]]]

FilterGames(games, filters) ==
    ArrayFilter(games, [i \in 1..Len(games) |-> FilterCallback(games[i], filters)])

(***************************************************************************)
(* The filter sets handed to filterGames.  {} is the empty record <<>>.    *)
(***************************************************************************)
CategoryValues == {<<>>, CatA, CatB}

DifficultyValues == {"", "beginner", "advanced"}

PlayerBounds == {0, 2}

AudienceValues == {"null", "true", "false"}

FilterSets ==
    {<<>>}
    \cup [category : CategoryValues, difficulty : DifficultyValues]
    \cup [category : CategoryValues]
    \cup [difficulty : DifficultyValues]
    \cup [minPlayers : PlayerBounds]
    \cup [maxPlayers : PlayerBounds]
    \cup [minPlayers : PlayerBounds, maxPlayers : PlayerBounds]
    \cup [audienceParticipation : AudienceValues]
    \cup [category : {CatB}, difficulty : {"", "beginner"}, minPlayers : PlayerBounds,
          maxPlayers : PlayerBounds, audienceParticipation : AudienceValues]

Reverse(s) == [i \in 1..Len(s) |-> s[Len(s) + 1 - i]]

(***************************************************************************)
(* The search page: rendering and the handlers of its controls.            *)
(***************************************************************************)
\* createGameCard raises a TypeError on a game without difficulty
\* (capitalizeFirst) or without playerCount (formatPlayerCount).
CardThrows(game) == ~Has(game, "difficulty") \/ ~Has(game, "playerCount")

\* renderGames: the cards appended to gamesContainer, one per game, up to the
\* first game whose card cannot be created.
RenderGames(games) ==
    LET bad == {i \in 1..Len(games) : CardThrows(games[i])}
    IN IF bad = {} THEN [threw |-> FALSE, cards |-> games]
       ELSE [threw |-> TRUE,
             cards |-> SubSeq(games, 1, (CHOOSE i \in bad : \A j \in bad : i <= j) - 1)]

\* The values of the category selector: '' and the loaded category names.
CategoryOptions == {<<>>, CatA, CatB}

\* The values of the difficulty selector.
DifficultyOptions == {"", "beginner", "advanced"}

\* The texts one keystroke makes of the search box's text: a character
\* appended, or the last character deleted.
Keystrokes(text) ==
    {Append(text, c) : c \in {d \in Chars : Len(text) < MaxTyped}}
    \cup {SubSeq(text, 1, Len(text) - 1) : n \in {m \in {Len(text)} : m > 0}}

\* applyFiltersAndSearch filtering the whole catalog instead of the search
\* result.
SearchAndFilterCatalog(query, category, difficulty) ==
    LET results == SearchGames(query)
    IN IF results.threw THEN ThrowTypeError
       ELSE FilterGames(allGames, [category |-> category, difficulty |-> difficulty])

\* applyFiltersAndSearch up to the filtered results: search first, then the
\* category and difficulty filters on the search result.
SearchAndFilter(query, category, difficulty) ==
    LET results == SearchGames(query)
    IN IF results.threw THEN ThrowTypeError
       ELSE FilterGames(results.value, [category |-> category, difficulty |-> difficulty])

\* applyFiltersAndSearch, run by handler name, reading query, category and
\* difficulty from the controls.
ApplyFiltersAndSearch(name, query, category, difficulty) ==
    LET results == SearchAndFilter(query, category, difficulty)
    IN IF results.threw
       THEN /\ handler' = [name |-> name, threw |-> TRUE]
            /\ UNCHANGED <<filteredGames, rendered>>
       ELSE /\ filteredGames' = results.value
            /\ rendered' = RenderGames(results.value).cards
            /\ handler' = [name |-> name, threw |-> RenderGames(results.value).threw]

\* initSearch has run: the listeners of the controls are attached.  Each run
\* attaches one more debounced input listener (a new closure); handleFilter and
\* clearFilters are the same functions every time, and are attached once.
Attached == timeout # <<>>

\* No handler runs in the step.
NoHandler == handler' = [name |-> "none", threw |-> FALSE]

\* The user edits the search box: every debounced listener (executedFunction)
\* clears its pending timer and starts a new one.
ExecutedFunction(text) ==
    /\ searchInput' = text
    /\ timeout' = [i \in DOMAIN timeout |-> "pending"]
    /\ NoHandler
    /\ UNCHANGED <<allGames, filteredGames, categoryFilter, difficultyFilter,
                   rendered, call, loadVars, pageVars>>

\* The timer of debounced listener i expires: later() runs handleSearch.
Later(i) ==
    /\ timeout[i] = "pending"
    /\ timeout' = [timeout EXCEPT ![i] = "none"]
    /\ ApplyFiltersAndSearch("handleSearch", searchInput, categoryFilter,
                             difficultyFilter)
    /\ UNCHANGED <<allGames, searchInput, categoryFilter, difficultyFilter, call,
                   loadVars, pageVars>>

\* An input event on the search box.
InputEvent(text) == ExecutedFunction(text) /\ UNCHANGED burst

\* A debounce timer expires.
TimerFires == \E i \in DOMAIN timeout : Later(i) /\ UNCHANGED burst

\* A change event on the category selector: handleFilter.
CategoryChange(category) ==
    /\ categoryFilter' = category
    /\ IF Attached
       THEN ApplyFiltersAndSearch("handleFilter", searchInput, category,
                                  difficultyFilter)
       ELSE NoHandler /\ UNCHANGED <<filteredGames, rendered>>
    /\ UNCHANGED <<allGames, searchInput, difficultyFilter, timeout, call,
                   loadVars, pageVars, burst>>

\* A change event on the difficulty selector: handleFilter.
DifficultyChange(difficulty) ==
    /\ difficultyFilter' = difficulty
    /\ IF Attached
       THEN ApplyFiltersAndSearch("handleFilter", searchInput, categoryFilter,
                                  difficulty)
       ELSE NoHandler /\ UNCHANGED <<filteredGames, rendered>>
    /\ UNCHANGED <<allGames, searchInput, categoryFilter, timeout, call,
                   loadVars, pageVars, burst>>

\* A click on the clear button: clearFilters, when it is attached.
ClearFilters ==
    /\ Attached
    /\ searchInput' = <<>>
    /\ categoryFilter' = <<>>
    /\ difficultyFilter' = ""
    /\ ApplyFiltersAndSearch("clearFilters", <<>>, <<>>, "")
    /\ UNCHANGED <<allGames, timeout, call, loadVars, pageVars, burst>>

(***************************************************************************)
(* Loading.  The document is a list of category groups, each with a name   *)
(* and a list of games; loadGamesData flattens it into the catalog.        *)
(***************************************************************************)
\* The value undefined as a member of the categories Set.
Undefined == <<"undefined">>

\* Set.prototype.add: a value already in the Set keeps its place.
SetAdd(set, value) ==
    IF \E i \in 1..Len(set) : set[i] = value THEN set ELSE Append(set, value)

\* The UTF-16 code unit of a character.
CodeUnit(c) ==
    CASE c = " " -> 32
      [] c = "A" -> 65
      [] c = "a" -> 97
      [] c = "b" -> 98

CodeUnits(s) == [i \in 1..Len(s) |-> CodeUnit(s[i])]

\* The comparison of Array.prototype.sort without a comparator: undefined
\* after every other value, strings by their code units.
SortCompare(x, y) ==
    IF x = Undefined /\ y = Undefined THEN 0
    ELSE IF x = Undefined THEN 1
    ELSE IF y = Undefined THEN -1
    ELSE LexCompare(CodeUnits(x), CodeUnits(y))

RECURSIVE InsertString(_, _)
InsertString(sorted, x) ==
    IF sorted = <<>> THEN <<x>>
    ELSE IF SortCompare(x, Head(sorted)) < 0 THEN <<x>> \o sorted
    ELSE <<Head(sorted)>> \o InsertString(Tail(sorted), x)

\* Array.prototype.sort() of a list of strings.
RECURSIVE SortStrings(_)
SortStrings(list) ==
    IF list = <<>> THEN <<>>
    ELSE InsertString(SortStrings(SubSeq(list, 1, Len(list) - 1)), list[Len(list)])

\* getCategories without the sort: Array.from(categories).
GetCategoriesUnsorted == categories

\* getCategories.
GetCategories == SortStrings(categories)

\* The comparator of the catalog sort when it completes:
\* a.name.localeCompare(b.name).  An undefined b.name is compared as the
\* string "undefined", which follows every name over Chars.
CompareFn(a, b) ==
    IF ~Has(b, "name") THEN -1 ELSE LocaleCompare(a.name, b.name)

RECURSIVE InsertGame(_, _)
InsertGame(sorted, game) ==
    IF sorted = <<>> THEN <<game>>
    ELSE IF Has(game, "name") /\ CompareFn(game, Head(sorted)) < 0
    THEN <<game>> \o sorted
    ELSE <<Head(sorted)>> \o InsertGame(Tail(sorted), game)

\* The stable sort of games by the comparator.
RECURSIVE SortedByName(_)
SortedByName(games) ==
    IF games = <<>> THEN <<>>
    ELSE InsertGame(SortedByName(SubSeq(games, 1, Len(games) - 1)),
                    games[Len(games)])

Nameless(games) == {i \in 1..Len(games) : ~Has(games[i], "name")}

\* The catalog sort left out: the games stay in document order.
ArraySortSkipped(games) == {Return(games)}

\* allGames.sort(comparator): the outcomes an engine can produce.  The sort is
\* stable and sorts a copy, written back when it completes.  A list of fewer
\* than two games is never compared.  A nameless game raises a TypeError when
\* it is the first argument of a comparison and is compared as "undefined"
\* when it is the second; which one it is depends on the engine's algorithm.
\* Two nameless games end up compared with each other.
ArraySort(games) ==
    IF Len(games) < 2 \/ Nameless(games) = {} THEN {Return(SortedByName(games))}
    ELSE {[threw |-> TRUE, value |-> games]}
         \cup (IF Cardinality(Nameless(games)) = 1
               THEN {Return(SortedByName(games))} ELSE {})

\* game.category = category.name
WithCategory(game, category) ==
    IF Has(category, "name")
    THEN [f \in DOMAIN game \cup {"category"} |->
             IF f = "category" THEN category.name ELSE game[f]]
    ELSE [f \in DOMAIN game \ {"category"} |-> game[f]]

\* data.categories.forEach(...) on the groups of list, with games and cats
\* what allGames and categories hold so far.  A group without games raises a
\* TypeError after its name has been added.
RECURSIVE ForEachCategory(_, _, _)
ForEachCategory(list, games, cats) ==
    IF list = <<>>
    THEN [threw |-> FALSE, allGames |-> games, categories |-> cats]
    ELSE LET category == Head(list)
             added == SetAdd(cats, IF Has(category, "name") THEN category.name
                                   ELSE Undefined)
         IN IF ~Has(category, "games")
            THEN [threw |-> TRUE, allGames |-> games, categories |-> added]
            ELSE ForEachCategory(Tail(list),
                     games \o [i \in 1..Len(category.games) |->
                                  WithCategory(category.games[i], category)],
                     added)

\* loadGamesData on what the fetch gives: what it writes from the parse of the
\* document to its return.  Nothing is written before the document has been
\* parsed.
LoadGamesData(resp) ==
    /\ response' = resp
    /\ IF resp.kind # "json"
       THEN /\ dataLoaded' = "false"
            /\ UNCHANGED <<allGames, filteredGames, categories>>
       ELSE IF ~Has(resp.data, "categories")
       THEN /\ allGames' = <<>>
            /\ categories' = <<>>
            /\ dataLoaded' = "false"
            /\ UNCHANGED filteredGames
       ELSE LET each == ForEachCategory(resp.data.categories, <<>>, <<>>)
            IN IF each.threw
               THEN /\ allGames' = each.allGames
                    /\ categories' = each.categories
                    /\ dataLoaded' = "false"
                    /\ UNCHANGED filteredGames
               ELSE \E sorted \in ArraySort(each.allGames) :
                        /\ allGames' = sorted.value
                        /\ categories' = each.categories
                        /\ IF sorted.threw
                           THEN dataLoaded' = "false" /\ UNCHANGED filteredGames
                           ELSE dataLoaded' = "true" /\ filteredGames' = sorted.value

\* A direct call of loadGamesData, taken with its fetch as one step.
CallLoadGamesData(resp) ==
    /\ call.op = "none"
    /\ LoadGamesData(resp)
    /\ UNCHANGED <<searchInput, categoryFilter, difficultyFilter, rendered,
                   timeout, handler, call, pageVars, burst>>

\* The game as the document holds it: the category is not a field of it.
RawGame(game) == [f \in DOMAIN game \ {"category"} |-> game[f]]

MaxGroups == 2

CatLower == <<"a">>

GroupNames == {CatA, CatB, CatLower, <<>>}

GameLists ==
    {<<>>, <<RawGame(Game1)>>, <<RawGame(Game2)>>,
     <<RawGame(Game2), RawGame(Game1)>>, <<RawGame(Game10), RawGame(Game2)>>,
     <<RawGame(Game12)>>}

\* The groups of a document: with or without a name, and without games.
Groups ==
    [name : GroupNames, games : GameLists]
        \cup [games : GameLists] \cup [name : GroupNames]

RECURSIVE GroupListsUpTo(_)
GroupListsUpTo(n) ==
    IF n = 0 THEN {<<>>}
    ELSE LET shorter == GroupListsUpTo(n - 1)
         IN shorter \cup {Append(list, group) :
                             list \in {l \in shorter : Len(l) = n - 1},
                             group \in Groups}

\* The documents mutgames.json can be: a list of groups, or a document
\* without one.
Documents ==
    {[categories |-> list] : list \in GroupListsUpTo(MaxGroups)}
        \cup {[games |-> <<>>]}

NetworkError == [kind |-> "networkError"]

\* What a fetch of the document can give.
Responses ==
    {NetworkError, [kind |-> "httpError"], [kind |-> "syntaxError"]}
        \cup {[kind |-> "json", data |-> data] : data \in Documents}

\* What a fetch can give when the document is loaded again.
LaterResponses ==
    {NetworkError,
     [kind |-> "json", data |-> [games |-> <<>>]],
     [kind |-> "json", data |-> [categories |-> <<[name |-> CatLower]>>]],
     [kind |-> "json",
      data |-> [categories |-> <<[name |-> CatA,
                                  games |-> <<RawGame(Game10)>>]>>]]}

\* The category a catalog record carries.
CategoryOf(game) == IF Has(game, "category") THEN game.category ELSE Undefined

RECURSIVE CategoriesOf(_)
CategoriesOf(games) ==
    IF games = <<>> THEN <<>>
    ELSE SetAdd(CategoriesOf(SubSeq(games, 1, Len(games) - 1)),
                CategoryOf(games[Len(games)]))

\* A document that loads as the catalog games: one group for each category.
DocumentOf(games) ==
    LET names == CategoriesOf(games)
        GamesOf(name) ==
            LET own == SelectSeq(games, LAMBDA g : CategoryOf(g) = name)
            IN [i \in 1..Len(own) |-> RawGame(own[i])]
    IN [categories |->
           [k \in 1..Len(names) |->
               IF names[k] = Undefined THEN [games |-> GamesOf(names[k])]
               ELSE [name |-> names[k], games |-> GamesOf(names[k])]]]

\* A call of getCategories.
CallGetCategories ==
    /\ call.op = "none"
    /\ call' = [op |-> "getCategories", ret |-> GetCategories]
    /\ UNCHANGED <<allGames, filteredGames, searchInput, categoryFilter,
                   difficultyFilter, rendered, timeout, handler, loadVars,
                   pageVars, burst>>

(***************************************************************************)
(* The pages.  index.html runs initApp on DOMContentLoaded and again on    *)
(* every online event; game.html runs initGameDetails on DOMContentLoaded. *)
(* Both pages have the elements their scripts look up.  A load is          *)
(* suspended at its two awaits (the fetch, the parse of the body); what    *)
(* follows the second await, and the continuation of initApp or            *)
(* initGameDetails after the load has returned, run in one turn of the     *)
(* event loop.                                                             *)
(***************************************************************************)
\* No load is suspended at the fetch or at the parse of the document, and no
\* load has been started while another was suspended.
NoLoads == [fetch |-> 0, json |-> 0, overlap |-> FALSE]

\* The index page; the game page is [page |-> "game"], with the id of its URL
\* when the URL has one (game.html?id=...).
IndexPage == [page |-> "index"]

\* The id of a URL whose id parameter is the empty string; the ids of the
\* games are opaque strings, written as positive numbers.
EmptyId == 0

\* The title and the breadcrumb as the page has them before a game is shown.
NoTitle == <<"none">>

\* The game page has not displayed anything yet.
NoContent == [kind |-> "loading", title |-> NoTitle]

\* No input event has started a debounce wait: the time since the last input
\* event and since the timer was started, and the runs of handleSearch and the
\* input events of the burst under way.
Quiet == [since |-> 0, waited |-> 0, runs |-> 0, events |-> 0]

MaxInits == 2

\* An initTheme that applies the saved theme without saving it.
InitThemeUnsaved ==
    /\ dataTheme' = IF localStorage = "null" THEN "light" ELSE localStorage
    /\ clickListeners' = clickListeners + 1
    /\ UNCHANGED localStorage

\* initTheme and initGameTheme: apply and save the saved theme, 'light' when
\* nothing is saved, and add a click listener to the toggle.
InitTheme ==
    LET savedTheme == IF localStorage = "null" THEN "light" ELSE localStorage
    IN /\ dataTheme' = savedTheme
       /\ localStorage' = savedTheme
       /\ clickListeners' = clickListeners + 1

\* The loads suspended at an await.
InFlight == awaiting.fetch + awaiting.json

\* initApp and initGameDetails up to the await of the fetch.
InitApp ==
    /\ InitTheme
    /\ awaiting' = [awaiting EXCEPT !.fetch = @ + 1,
                                    !.overlap = @ \/ InFlight > 0]
    /\ NoHandler
    /\ UNCHANGED <<allGames, filteredGames, searchInput, categoryFilter,
                   difficultyFilter, rendered, timeout, call, loadVars, options,
                   location, gameContent, burst>>

\* DOMContentLoaded.
DOMContentLoaded ==
    /\ readyState = "loading"
    /\ readyState' = "interactive"
    /\ InitApp

\* The online event of the index page: initApp again.
Online ==
    /\ readyState = "interactive"
    /\ location.page = "index"
    /\ clickListeners < MaxInits
    /\ InitApp
    /\ UNCHANGED readyState

\* showError.
ShowError == rendered' = <<>>

\* initSearch and the first render, after a load that returned true: one more
\* debounced listener, the categories appended to the selector, the catalog
\* rendered; an exception of the render is caught and reported by showError.
InitSearch ==
    /\ timeout' = Append(timeout, "none")
    /\ options' = options \o GetCategories'
    /\ rendered' = IF RenderGames(allGames').threw THEN <<>> ELSE allGames'

\* A getGameById that returns the first game of the catalog.
GetGameByIdFirst(games, gameId) == IF games = <<>> THEN <<>> ELSE <<games[1]>>

\* getGameById.
GetGameById(games, gameId) ==
    LET found == {i \in 1..Len(games) : Has(games[i], "id") /\ games[i].id = gameId}
    IN IF found = {} THEN <<>>
       ELSE <<games[CHOOSE i \in found : \A j \in found : i <= j]>>

\* showGameError.
ShowGameError(message, title) ==
    gameContent' = [kind |-> "error", message |-> message, title |-> title]

\* The name displayGameDetails writes to the title and the breadcrumb.
TitleOf(game) == IF Has(game, "name") THEN game.name ELSE Undefined

\* displayGameDetails raises a TypeError when the game has no difficulty
\* (capitalizeFirst), no playerCount (formatPlayerCount) or a structured tip
\* without tips (tip.tips.map).
DisplayThrows(game) ==
    \/ ~Has(game, "difficulty")
    \/ ~Has(game, "playerCount")
    \/ /\ Has(game, "tips")
       /\ \E i \in 1..Len(game.tips) :
              game.tips[i].type = "object" /\ ~Has(game.tips[i], "tips")

\* initGameDetails after a load that returned true.
ShowGame ==
    IF ~Has(location, "id") \/ location.id = EmptyId
    THEN ShowGameError("No game ID provided", NoTitle)
    ELSE LET found == GetGameById(allGames', location.id)
         IN IF found = <<>> THEN ShowGameError("Game not found", NoTitle)
            ELSE IF DisplayThrows(found[1])
            THEN ShowGameError("An error occurred", TitleOf(found[1]))
            ELSE gameContent' = [kind |-> "game", game |-> found[1],
                                 title |-> TitleOf(found[1])]

\* The continuation of initApp or initGameDetails when loadGamesData returns.
LoadReturns ==
    /\ IF location.page = "index"
       THEN /\ IF dataLoaded' = "true" THEN InitSearch
               ELSE ShowError /\ UNCHANGED <<timeout, options>>
            /\ UNCHANGED gameContent
       ELSE /\ IF dataLoaded' = "true" THEN ShowGame
               ELSE ShowGameError("Failed to load game data", NoTitle)
            /\ UNCHANGED <<timeout, options, rendered>>
    /\ NoHandler
    /\ UNCHANGED <<searchInput, categoryFilter, difficultyFilter, call,
                   readyState, clickListeners, dataTheme, localStorage, location,
                   burst>>

\* The fetch of a suspended load settles: rejected, answered with a status
\* that is not OK, or answered with a body to parse.
FetchSettles(outcome) ==
    /\ awaiting.fetch > 0
    /\ IF outcome = "ok"
       THEN /\ awaiting' = [awaiting EXCEPT !.fetch = @ - 1, !.json = @ + 1]
            /\ NoHandler
            /\ UNCHANGED <<allGames, filteredGames, searchInput, categoryFilter,
                           difficultyFilter, rendered, timeout, call, loadVars,
                           readyState, options, clickListeners, dataTheme,
                           localStorage, location, gameContent, burst>>
       ELSE /\ awaiting' = [awaiting EXCEPT !.fetch = @ - 1]
            /\ LoadGamesData([kind |-> outcome])
            /\ LoadReturns

\* The parse of the body of a suspended load settles: with a syntax error or
\* with the document.
JsonSettles(resp) ==
    /\ awaiting.json > 0
    /\ awaiting' = [awaiting EXCEPT !.json = @ - 1]
    /\ LoadGamesData(resp)
    /\ LoadReturns

\* The theme toggle's click listener: light after dark, dark after anything
\* else.
ToggleTheme(currentTheme) == IF currentTheme = "dark" THEN "light" ELSE "dark"

\* A click on the toggle runs every listener attached to it, in turn.
RECURSIVE Clicked(_, _)
Clicked(currentTheme, listeners) ==
    IF listeners = 0 THEN currentTheme
    ELSE Clicked(ToggleTheme(currentTheme), listeners - 1)

\* A click on the theme toggle; setTheme saves what it applies.
ToggleClick ==
    /\ clickListeners > 0
    /\ dataTheme' = Clicked(dataTheme, clickListeners)
    /\ localStorage' = dataTheme'
    /\ handler' = [name |-> "toggleTheme", threw |-> FALSE]
    /\ UNCHANGED <<allGames, filteredGames, searchInput, categoryFilter,
                   difficultyFilter, rendered, timeout, call, loadVars,
                   readyState, awaiting, options, clickListeners, location,
                   gameContent, burst>>

\* The state of a page whose scripts have been evaluated and whose
\* DOMContentLoaded event has not been dispatched.
Evaluated(saved, url) ==
    /\ allGames = <<>>
    /\ filteredGames = <<>>
    /\ categories = <<>>
    /\ response = [kind |-> "none"]
    /\ dataLoaded = "none"
    /\ searchInput = <<>>
    /\ categoryFilter = <<>>
    /\ difficultyFilter = ""
    /\ rendered = <<>>
    /\ timeout = <<>>
    /\ handler = [name |-> "none", threw |-> FALSE]
    /\ call = [op |-> "none"]
    /\ readyState = "loading"
    /\ awaiting = NoLoads
    /\ options = <<>>
    /\ clickListeners = 0
    /\ dataTheme = "null"
    /\ localStorage = saved
    /\ location = url
    /\ gameContent = NoContent
    /\ burst = Quiet

\* The browser leaves the page for url (a card's navigateToGame, the link
\* back to index.html, an address typed): the scripts of the new page start
\* afresh, and only local storage is kept.
PageLoad(url) ==
    /\ readyState = "interactive"
    /\ allGames' = <<>>
    /\ filteredGames' = <<>>
    /\ categories' = <<>>
    /\ response' = [kind |-> "none"]
    /\ dataLoaded' = "none"
    /\ searchInput' = <<>>
    /\ categoryFilter' = <<>>
    /\ difficultyFilter' = ""
    /\ rendered' = <<>>
    /\ timeout' = <<>>
    /\ NoHandler
    /\ readyState' = "loading"
    /\ awaiting' = NoLoads
    /\ options' = <<>>
    /\ clickListeners' = 0
    /\ dataTheme' = "null"
    /\ location' = url
    /\ gameContent' = NoContent
    /\ UNCHANGED <<call, localStorage, burst>>

(***************************************************************************)
(* The debounced input listener against the clock.  Time advances in       *)
(* steps of Tick milliseconds; a timer that is due runs before time goes   *)
(* on and before a later input event is dispatched.                        *)
(***************************************************************************)
Wait == 300

Tick == 100

MaxEvents == 3

\* The timer of the debounced listener is due.
Due == timeout[1] = "pending" /\ burst.waited >= Wait

\* The burst an input event belongs to: the one under way when the previous
\* event is less than Wait old, a new one otherwise.
Burst(restarted) ==
    IF burst.events > 0 /\ burst.since < Wait
    THEN [since |-> 0, waited |-> IF restarted THEN 0 ELSE burst.waited,
          runs |-> burst.runs, events |-> burst.events + 1]
    ELSE [since |-> 0, waited |-> 0, runs |-> 0, events |-> 1]

\* A debounce that starts its timer on the first event of a burst only.
DebouncedInputNoRestart(text) ==
    /\ ~Due
    /\ burst.events < MaxEvents \/ burst.since >= Wait
    /\ ExecutedFunction(text)
    /\ burst' = Burst(FALSE)

\* An input event on the debounced listener: clearTimeout, then setTimeout
\* start the wait again.
DebouncedInput(text) ==
    /\ ~Due
    /\ burst.events < MaxEvents \/ burst.since >= Wait
    /\ ExecutedFunction(text)
    /\ burst' = Burst(TRUE)

\* Tick milliseconds pass.
TimePasses ==
    /\ ~Due
    /\ burst.since < Wait
    /\ burst' = [burst EXCEPT !.since = @ + Tick, !.waited = @ + Tick]
    /\ NoHandler
    /\ UNCHANGED <<allGames, filteredGames, searchInput, categoryFilter,
                   difficultyFilter, rendered, timeout, call, loadVars, pageVars>>

\* The timer runs later() when the wait is over.
DebounceFires ==
    /\ Due
    /\ Later(1)
    /\ burst' = [burst EXCEPT !.runs = @ + 1]

(***************************************************************************)
(* Direct calls of the exported engine functions, window.GameData.*.  A     *)
(* call changes nothing but the record of the call, so one call per        *)
(* behaviour reaches every state that any sequence of calls reaches.       *)
(***************************************************************************)
\* A searchGames that keeps its result as the catalog.
CallSearchGamesInPlace(query) ==
    /\ call.op = "none"
    /\ call' = [op |-> "searchGames", query |-> query, ret |-> SearchGames(query)]
    /\ allGames' = IF SearchGames(query).threw THEN allGames
                   ELSE SearchGames(query).value
    /\ UNCHANGED <<filteredGames, searchInput, categoryFilter, difficultyFilter,
                   rendered, timeout, handler, loadVars, pageVars, burst>>

CallSearchGames(query) ==
    /\ call.op = "none"
    /\ call' = [op |-> "searchGames", query |-> query, ret |-> SearchGames(query)]
    /\ UNCHANGED <<allGames, filteredGames, searchInput, categoryFilter,
                   difficultyFilter, rendered, timeout, handler, loadVars,
                   pageVars, burst>>

CallFilterGames(games, filters) ==
    /\ call.op = "none"
    /\ call' = [op |-> "filterGames", games |-> games, filters |-> filters,
                ret |-> FilterGames(games, filters)]
    /\ UNCHANGED <<allGames, filteredGames, searchInput, categoryFilter,
                   difficultyFilter, rendered, timeout, handler, loadVars,
                   pageVars, burst>>

(***************************************************************************)
(* Specifications.  Spec and SpecEngine start when initApp has finished:   *)
(* the load has succeeded, initSearch has attached the listeners and the   *)
(* catalog has been rendered (showError empties the container when that    *)
(* render fails).  SpecLoad starts before the first load, SpecPage before  *)
(* DOMContentLoaded; SpecDebounce and SpecOperations start as Spec does.   *)
(***************************************************************************)
Loaded(catalogs) ==
    /\ allGames \in catalogs
    /\ filteredGames = allGames
    /\ searchInput = <<>>
    /\ categoryFilter = <<>>
    /\ difficultyFilter = ""
    /\ rendered = IF RenderGames(allGames).threw THEN <<>> ELSE allGames
    /\ timeout = <<"none">>
    /\ handler = [name |-> "none", threw |-> FALSE]
    /\ call = [op |-> "none"]
    /\ categories = CategoriesOf(allGames)
    /\ response = [kind |-> "json", data |-> DocumentOf(allGames)]
    /\ dataLoaded = "true"
    /\ readyState = "interactive"
    /\ awaiting = NoLoads
    /\ options = GetCategories
    /\ clickListeners = 1
    /\ dataTheme = "light"
    /\ localStorage = "light"
    /\ location = IndexPage
    /\ gameContent = NoContent
    /\ burst = Quiet

\* The search page under the user's events.
Init == Loaded(PageCatalogs)

Next ==
    \/ \E text \in Keystrokes(searchInput) : InputEvent(text)
    \/ TimerFires
    \/ \E category \in CategoryOptions : CategoryChange(category)
    \/ \E difficulty \in DifficultyOptions : DifficultyChange(difficulty)
    \/ ClearFilters

Spec == Init /\ [][Next]_vars

\* The engine under direct calls, on the catalog and on the catalog reversed.
InitEngine == Loaded(Catalogs)

NextEngine ==
    \/ \E query \in Queries : CallSearchGames(query)
    \/ \E games \in {allGames, Reverse(allGames)}, filters \in FilterSets :
           CallFilterGames(games, filters)

SpecEngine == InitEngine /\ [][NextEngine]_vars

\* The loader under direct calls, from the state the scripts leave when they
\* have been evaluated: a first load, later loads, and getCategories.
InitLoad ==
    /\ allGames = <<>>
    /\ filteredGames = <<>>
    /\ categories = <<>>
    /\ response = [kind |-> "none"]
    /\ dataLoaded = "none"
    /\ searchInput = <<>>
    /\ categoryFilter = <<>>
    /\ difficultyFilter = ""
    /\ rendered = <<>>
    /\ timeout = <<>>
    /\ handler = [name |-> "none", threw |-> FALSE]
    /\ call = [op |-> "none"]
    /\ readyState = "loading"
    /\ awaiting = NoLoads
    /\ options = <<>>
    /\ clickListeners = 0
    /\ dataTheme = "null"
    /\ localStorage = "null"
    /\ location = IndexPage
    /\ gameContent = NoContent
    /\ burst = Quiet

NextLoad ==
    \/ dataLoaded = "none" /\ \E resp \in Responses : CallLoadGamesData(resp)
    \/ dataLoaded # "none" /\ \E resp \in LaterResponses : CallLoadGamesData(resp)
    \/ CallGetCategories

SpecLoad == InitLoad /\ [][NextLoad]_vars

\* The documents of the pages: two well-formed ones (the second has a game
\* without playerCount, whose card cannot be created), one without
\* categories, and one whose second group has no games.
PageDocuments ==
    {[categories |-> <<[name |-> CatA, games |-> <<RawGame(Game10)>>],
                       [name |-> CatB, games |-> <<RawGame(Game1)>>]>>],
     [categories |-> <<[name |-> CatB, games |-> <<RawGame(Game11)>>]>>],
     [games |-> <<>>],
     [categories |-> <<[name |-> CatA, games |-> <<RawGame(Game10)>>],
                       [name |-> CatB]>>]}

\* What the parse of a body can give.
Bodies ==
    {[kind |-> "syntaxError"]}
        \cup {[kind |-> "json", data |-> data] : data \in PageDocuments}

\* The URLs of the pages: game.html without id, with an empty id, with the
\* id of a game of a document and with the id of no game.
Locations ==
    {IndexPage, [page |-> "game"]}
        \cup {[page |-> "game", id |-> id] : id \in {EmptyId, 1, 2, 11}}

\* The texts of the search box and the values of the category selector.
PageTexts == {<<>>, NameBb}

SelectorValues == {<<>>} \cup {options[i] : i \in DOMAIN options}

\* The pages under the events of the browser and of the user.
InitPage == \E saved \in {"null", "light", "dark"} : Evaluated(saved, IndexPage)

NextPage ==
    \/ DOMContentLoaded
    \/ Online
    \/ \E outcome \in {"networkError", "httpError", "ok"} : FetchSettles(outcome)
    \/ \E resp \in Bodies : JsonSettles(resp)
    \/ ToggleClick
    \/ \E url \in Locations : PageLoad(url)
    \/ location.page = "index" /\ \E text \in PageTexts : InputEvent(text)
    \/ TimerFires
    \/ location.page = "index"
           /\ \E category \in SelectorValues : CategoryChange(category)
    \/ location.page = "index"
           /\ \E difficulty \in DifficultyOptions : DifficultyChange(difficulty)
    \/ ClearFilters

SpecPage == InitPage /\ [][NextPage]_vars

\* The search page under input events and the clock.  The clock goes on and
\* a timer that is due is run.
NextDebounce ==
    \/ \E text \in PageTexts : DebouncedInput(text)
    \/ TimePasses
    \/ DebounceFires

SpecDebounce ==
    Init /\ [][NextDebounce]_vars /\ WF_vars(TimePasses) /\ WF_vars(DebounceFires)

\* The engine and the handlers of the search page, called in any order; a
\* caller is done with what a direct call returned before the next one.
CallReturned ==
    /\ call.op # "none"
    /\ call' = [op |-> "none"]
    /\ UNCHANGED <<allGames, filteredGames, searchInput, categoryFilter,
                   difficultyFilter, rendered, timeout, handler, loadVars,
                   pageVars, burst>>

NextOperations ==
    \/ \E query \in PageTexts : CallSearchGames(query)
    \/ \E filters \in [category : {<<>>, CatA}, difficulty : {"", "beginner"}] :
           CallFilterGames(allGames, filters)
    \/ CallGetCategories
    \/ CallReturned
    \/ \E text \in PageTexts : InputEvent(text)
    \/ TimerFires
    \/ \E category \in CategoryOptions : CategoryChange(category)
    \/ \E difficulty \in DifficultyOptions : DifficultyChange(difficulty)
    \/ ClearFilters

SpecOperations == Init /\ [][NextOperations]_vars

(***************************************************************************)
(* Properties.  Those of searchGames and filterGames are stated over the   *)
(* recorded call under SpecEngine, those of the page's handlers under      *)
(* Spec.  The helpers below restate the documented behaviour on its own    *)
(* terms, not through the operators that model the code.                   *)
(***************************************************************************)
\* Every record of games has a name, the documented constraint on the input
\* of search.
AllNamed(games) == \A i \in 1..Len(games) : Has(games[i], "name")

\* text is empty or holds spaces only.
IsBlank(text) == \A i \in 1..Len(text) : text[i] = " "

\* The documented normalisation of a query: trimmed, then lower-cased.
NormalizedTerm(query) == ToLowerCase(Trim(query))

\* part's elements occur in whole in the same relative order, each element of
\* whole used at most once.
IsSubsequence(part, whole) ==
    \E f \in [1..Len(part) -> 1..Len(whole)] :
        /\ \A i \in 1..Len(part) : part[i] = whole[f[i]]
        /\ \A i \in 1..(Len(part) - 1) : f[i] < f[i + 1]

Elements(list) == {list[i] : i \in 1..Len(list)}

\* The strings a tip offers to the search: the tip itself when it is a plain
\* string, the strings of its tips list when it is structured; never its role.
TipStrings(tip) ==
    IF tip.type = "string" THEN {tip.value}
    ELSE IF Has(tip, "tips") THEN Elements(tip.tips)
    ELSE {}

\* The strings of the searchable fields a game has.
SearchableStrings(game) ==
    (IF Has(game, "name") THEN {game.name} ELSE {})
    \cup (IF Has(game, "setup") /\ Has(game.setup, "description")
          THEN {game.setup.description} ELSE {})
    \cup (IF Has(game, "rules") THEN Elements(game.rules) ELSE {})
    \cup (IF Has(game, "tips")
          THEN UNION {TipStrings(game.tips[i]) : i \in 1..Len(game.tips)} ELSE {})
    \cup (IF Has(game, "examples") THEN Elements(game.examples) ELSE {})
    \cup (IF Has(game, "tags") THEN Elements(game.tags) ELSE {})
    \cup (IF Has(game, "category") THEN {game.category} ELSE {})

\* Some searchable field of game contains the normalised query,
\* case-insensitively.
MatchesQuery(game, query) ==
    \E str \in SearchableStrings(game) :
        Includes(ToLowerCase(str), NormalizedTerm(query))

\* game satisfies every present filter field: '' for category or difficulty
\* and null for audienceParticipation count as absent.
SatisfiesFilters(game, filters) ==
    /\ (Has(filters, "category") /\ filters.category # <<>>)
          => (Has(game, "category") /\ game.category = filters.category)
    /\ (Has(filters, "difficulty") /\ filters.difficulty # "")
          => (Has(game, "difficulty") /\ game.difficulty = filters.difficulty)
    /\ Has(filters, "minPlayers")
          => (Has(game, "playerCount") /\ game.playerCount.min >= filters.minPlayers)
    /\ Has(filters, "maxPlayers")
          => (Has(game, "playerCount") /\ game.playerCount.max <= filters.maxPlayers)
    /\ (Has(filters, "audienceParticipation") /\ filters.audienceParticipation # "null")
          => (/\ Has(game, "audienceParticipation")
              /\ game.audienceParticipation = filters.audienceParticipation)

Searched == call.op = "searchGames"

Filtered == call.op = "filterGames"

\* C1: on a catalog whose records all have a name, searchGames with a query
\* whose trimmed text is not empty returns exactly the catalog records one of
\* whose searchable fields (name, setup description, a rule, a plain tip or a
\* string of a structured tip's tips list, an example, a tag, category)
\* contains the trimmed, lower-cased query; none other, none omitted.
C1_SearchReturnsExactlyTheMatches ==
    (Searched /\ ~IsBlank(call.query) /\ AllNamed(allGames))
        => call.ret = Return(SelectSeq(allGames, LAMBDA g : MatchesQuery(g, call.query)))

\* C2: filterGames returns exactly the records of its input that satisfy every
\* present filter field among category, difficulty, minPlayers, maxPlayers and
\* audienceParticipation.
C2_FilterReturnsExactlyTheSatisfying ==
    Filtered
        => call.ret = Return(SelectSeq(call.games,
                                 LAMBDA g : SatisfiesFilters(g, call.filters)))

\* C3: searchGames with an empty query or one made only of whitespace returns
\* all the catalog's records, in catalog order.
C3_BlankQueryReturnsCatalog ==
    (Searched /\ IsBlank(call.query)) => call.ret = Return(allGames)

C3_Witness ==
    /\ Searched
    /\ call.query = <<" ", " ">>
    /\ Len(allGames) = MaxGames
    /\ call.ret = Return(allGames)

\* No field of filters is an active constraint: each is absent, or '' for
\* category and difficulty.
NoActiveConstraint(filters) ==
    /\ DOMAIN filters \subseteq {"category", "difficulty"}
    /\ Has(filters, "category") => filters.category = <<>>
    /\ Has(filters, "difficulty") => filters.difficulty = ""

\* C4: filterGames with no active constraint (no field, or category and
\* difficulty given as '') returns its input list, same members, same order.
C4_NoConstraintReturnsInput ==
    (Filtered /\ NoActiveConstraint(call.filters)) => call.ret = Return(call.games)

C4_Witness ==
    /\ Filtered
    /\ call.filters = [category |-> <<>>, difficulty |-> ""]
    /\ Len(call.games) = MaxGames
    /\ call.games # allGames
    /\ call.ret = Return(call.games)

\* C5: after every run of a handler (handleSearch, handleFilter, clearFilters)
\* in which the search completes, filteredGames is filterGames applied with the
\* selectors' current category and difficulty to the result of searchGames on
\* the search box's current text; and when the handler runs to completion the
\* rendered list is that same list.
C5_HandlerStoresFilterOfSearch ==
    (handler.name # "none" /\ ~SearchGames(searchInput).threw)
        => LET expected ==
                   FilterGames(SearchGames(searchInput).value,
                               [category |-> categoryFilter,
                                difficulty |-> difficultyFilter])
           IN /\ ~expected.threw
              /\ filteredGames = expected.value
              /\ ~handler.threw => rendered = expected.value

C5_Witness ==
    /\ handler = [name |-> "handleSearch", threw |-> FALSE]
    /\ allGames = <<Game1, Game2>>
    /\ searchInput = <<"a", " ">>
    /\ categoryFilter = CatB
    /\ difficultyFilter = "beginner"
    /\ filteredGames = <<Game1>>
    /\ rendered = <<Game1>>

\* C6: the records searchGames returns appear in the same relative order as in
\* the catalog: the result is a subsequence of the catalog.
C6_SearchKeepsCatalogOrder ==
    (Searched /\ ~call.ret.threw) => IsSubsequence(call.ret.value, allGames)

C6_Witness ==
    /\ Searched
    /\ ~IsBlank(call.query)
    /\ ~call.ret.threw
    /\ Len(call.ret.value) = MaxGames

\* C7: the records filterGames returns appear in the same relative order as in
\* its input list, each input record at most once.
C7_FilterKeepsInputOrder ==
    (Filtered /\ ~call.ret.threw) => IsSubsequence(call.ret.value, call.games)

C7_Witness ==
    /\ Filtered
    /\ ~NoActiveConstraint(call.filters)
    /\ call.games # allGames
    /\ ~call.ret.threw
    /\ Len(call.ret.value) = MaxGames

\* The only strings of game that contain the query are role labels of its
\* structured tips.
OnlyInRoleLabel(game, query) ==
    /\ ~MatchesQuery(game, query)
    /\ Has(game, "tips")
    /\ \E i \in 1..Len(game.tips) :
           /\ game.tips[i].type = "object"
           /\ Has(game.tips[i], "role")
           /\ Includes(ToLowerCase(game.tips[i].role), NormalizedTerm(query))

\* C8: a record is returned when a plain-string tip contains the term, or when
\* a string in the tips list of a structured tip contains it, whatever the
\* tip's role; a record whose only occurrence of the term is in a role label is
\* not returned.
C8_TipsMatchWhateverTheRole ==
    (Searched /\ ~IsBlank(call.query) /\ ~call.ret.threw)
        => \A i \in 1..Len(allGames) :
               LET game == allGames[i]
               IN /\ (/\ Has(game, "tips")
                      /\ \E j \in 1..Len(game.tips) :
                             \E str \in TipStrings(game.tips[j]) :
                                 Includes(ToLowerCase(str), NormalizedTerm(call.query)))
                         => game \in Elements(call.ret.value)
                  /\ OnlyInRoleLabel(game, call.query)
                         => game \notin Elements(call.ret.value)

\* C9: among records that have a playerCount, filterGames keeps a record only
\* if playerCount.min >= minPlayers when minPlayers is present, and only if
\* playerCount.max <= maxPlayers when maxPlayers is present.
C9_PlayerBoundsContainRecord ==
    (Filtered /\ ~call.ret.threw)
        => \A game \in Elements(call.ret.value) :
               Has(game, "playerCount")
                   => /\ Has(call.filters, "minPlayers")
                         => game.playerCount.min >= call.filters.minPlayers
                      /\ Has(call.filters, "maxPlayers")
                         => game.playerCount.max <= call.filters.maxPlayers

\* C10: when minPlayers or maxPlayers is given as a positive number,
\* filterGames completes without raising an error and returns no record that
\* lacks playerCount.
C10_MissingPlayerCountIsExcluded ==
    (/\ Filtered
     /\ \E f \in {"minPlayers", "maxPlayers"} :
            Has(call.filters, f) /\ call.filters[f] > 0)
        => /\ ~call.ret.threw
           /\ \A game \in Elements(call.ret.value) : Has(game, "playerCount")

\* C11: searchGames with a query that is not blank completes without raising
\* an error on a catalog that holds a record without a name.
C11_SearchSurvivesNamelessRecord ==
    (Searched /\ ~IsBlank(call.query) /\ ~AllNamed(allGames)) => ~call.ret.threw

\* The optional searchable fields.
OptionalFields == {"description", "rules", "tips", "examples", "tags", "category"}

\* The strings optional field f gives game to search, none when the field (or
\* setup, for the description) is absent.
FieldStrings(game, f) ==
    IF f = "description"
    THEN IF Has(game, "setup") /\ Has(game.setup, "description")
         THEN {game.setup.description} ELSE {}
    ELSE IF ~Has(game, f) THEN {}
    ELSE IF f = "category" THEN {game.category}
    ELSE IF f = "tips"
    THEN UNION {TipStrings(game.tips[i]) : i \in 1..Len(game.tips)}
    ELSE Elements(game[f])

\* C12: on records that have a name and lack any subset of the optional
\* searchable fields, searchGames completes without error and returns a record
\* exactly when its name or one of its present optional fields contains the
\* term; an absent field contributes no match.
C12_AbsentFieldsAreSkipped ==
    (Searched /\ ~IsBlank(call.query) /\ AllNamed(allGames))
        => /\ ~call.ret.threw
           /\ \A i \in 1..Len(allGames) :
                  allGames[i] \in Elements(call.ret.value)
                      <=> \E str \in {allGames[i].name}
                                  \cup UNION {FieldStrings(allGames[i], f) :
                                                 f \in OptionalFields} :
                              Includes(ToLowerCase(str), NormalizedTerm(call.query))

\* The records of games whose audienceParticipation is value.
WithAudience(games, value) ==
    SelectSeq(games, LAMBDA g : /\ Has(g, "audienceParticipation")
                                /\ g.audienceParticipation = value)

\* C13: with audienceParticipation the only filter field, filterGames keeps
\* exactly the records whose audienceParticipation equals it when it is true or
\* false, and every record when it is null or undefined; and whatever the
\* other fields, a boolean audienceParticipation leaves no record with another
\* value in the result.
C13_AudienceFilterIsExact ==
    Filtered
        => /\ DOMAIN call.filters = {"audienceParticipation"}
                  => call.ret =
                         IF call.filters.audienceParticipation = "null"
                         THEN Return(call.games)
                         ELSE Return(WithAudience(call.games,
                                         call.filters.audienceParticipation))
           /\ DOMAIN call.filters = {} => call.ret = Return(call.games)
           /\ (/\ Has(call.filters, "audienceParticipation")
               /\ call.filters.audienceParticipation # "null"
               /\ ~call.ret.threw)
                  => \A g \in Elements(call.ret.value) :
                         /\ Has(g, "audienceParticipation")
                         /\ g.audienceParticipation
                                = call.filters.audienceParticipation

C13_Witness ==
    /\ Filtered
    /\ call.filters = [audienceParticipation |-> "false"]
    /\ Len(call.games) = MaxGames
    /\ Len(call.ret.value) = 1
    /\ \E g \in Elements(call.games) :
           Has(g, "audienceParticipation") /\ g.audienceParticipation = "true"

\* The search predicate of a query on one record, taken after the filter: a
\* blank query accepts every record.
SearchPredicate(game, query) ==
    IsBlank(query) \/ SearchCallback(game, NormalizedTerm(query)) = "true"

CaseForms(c) == {d \in Chars : ToLowerChar(d) = ToLowerChar(c)}

\* The strings that differ from text in letter case at most.
RECURSIVE CaseVariants(_)
CaseVariants(text) ==
    IF text = <<>> THEN {<<>>}
    ELSE {<<c>> \o rest : c \in CaseForms(Head(text)),
                          rest \in CaseVariants(Tail(text))}

\* C18: a query that differs from the query of a searchGames call in letter
\* case only has the same outcome: the same records, or an error where the
\* call raised one.
C18_SearchIgnoresQueryCase ==
    Searched => \A other \in CaseVariants(call.query) :
                    SearchGames(other) = call.ret

C18_Witness ==
    /\ Searched
    /\ call.query = <<"A", "b">>
    /\ Len(allGames) = MaxGames
    /\ Len(call.ret.value) = 1
    /\ <<"a", "b">> \in CaseVariants(call.query)

\* The proper prefixes of text: text is each of them with characters appended.
ProperPrefixes(text) == {SubSeq(text, 1, n) : n \in 0..(Len(text) - 1)}

\* C19: when a searchGames call completes, every query its query extends by
\* appended characters completes too, and returns every record the call
\* returned.
C19_LongerQueryNarrows ==
    (Searched /\ ~call.ret.threw)
        => \A shorter \in ProperPrefixes(call.query) :
               /\ ~SearchGames(shorter).threw
               /\ Elements(call.ret.value)
                      \subseteq Elements(SearchGames(shorter).value)

C19_Witness ==
    /\ Searched
    /\ call.query = <<"b", "b">>
    /\ Len(allGames) = MaxGames
    /\ Len(call.ret.value) = 1
    /\ Len(SearchGames(<<"b">>).value) = MaxGames

\* The last loadGamesData returned true, and response is what it fetched.
LoadSucceeded == dataLoaded = "true" /\ response.kind = "json"

\* The game of a group as the catalog is to hold it: with the group's name as
\* its category.
Denormalized(game, group) ==
    IF Has(group, "name") THEN [category |-> group.name] @@ game ELSE game

\* The games of the groups, denormalized, in document order.
RECURSIVE InDocumentOrder(_)
InDocumentOrder(groups) ==
    IF groups = <<>> THEN <<>>
    ELSE [i \in 1..Len(Head(groups).games) |->
             Denormalized(Head(groups).games[i], Head(groups))]
         \o InDocumentOrder(Tail(groups))

\* The number of times record occurs in list.
Occurrences(record, list) == Cardinality({i \in 1..Len(list) : list[i] = record})

\* C20: after a successful loadGamesData the catalog holds each game of every
\* group of the document exactly once, with the group's name as its category;
\* the named records are in ascending order of name, and records of equal name
\* are in document order.
C20_CatalogIsSortedFlattening ==
    LoadSucceeded
        => LET source == InDocumentOrder(response.data.categories)
           IN /\ Len(allGames) = Len(source)
              /\ \A record \in Elements(source) \cup Elements(allGames) :
                     Occurrences(record, allGames) = Occurrences(record, source)
              /\ \A i, j \in 1..Len(allGames) :
                     (i < j /\ Has(allGames[i], "name") /\ Has(allGames[j], "name"))
                         => LocaleCompare(allGames[i].name, allGames[j].name) <= 0
              /\ \A record \in Elements(source) :
                     Has(record, "name")
                         => SelectSeq(allGames,
                                LAMBDA g : Has(g, "name") /\ g.name = record.name)
                            = SelectSeq(source,
                                LAMBDA g : Has(g, "name") /\ g.name = record.name)

C20_Witness ==
    /\ LoadSucceeded
    /\ Len(response.data.categories) = MaxGroups
    /\ response.data.categories[1] =
           [name |-> CatB, games |-> <<RawGame(Game10), RawGame(Game2)>>]
    /\ response.data.categories[2] =
           [name |-> CatA, games |-> <<RawGame(Game2), RawGame(Game1)>>]
    /\ Len(allGames) = 4
    /\ allGames[1].name = NameAb
    /\ allGames[2].id = 10
    /\ allGames[4].category = CatA

\* getCategories has been called after a successful load.
GotCategories == LoadSucceeded /\ call.op = "getCategories"

\* s comes before t in the default string order: at the first position where
\* they differ s has ended or has the smaller code unit.
Precedes(s, t) ==
    \E k \in 1..Len(t) :
        /\ \A m \in 1..(k - 1) : m <= Len(s) /\ s[m] = t[m]
        /\ \/ k = Len(s) + 1
           \/ k <= Len(s) /\ CodeUnit(s[k]) < CodeUnit(t[k])

\* C15: after a successful load getCategories returns a list without
\* duplicates, in ascending case-sensitive string order (an undefined group
\* name, which is no string, comes last).
C15_CategoriesAreDistinctAndSorted ==
    GotCategories
        => \A i, j \in 1..Len(call.ret) :
               i < j => /\ call.ret[i] # call.ret[j]
                        /\ call.ret[i] # Undefined
                        /\ (call.ret[j] # Undefined
                               => Precedes(call.ret[i], call.ret[j]))

C15_Witness ==
    /\ GotCategories
    /\ categories = <<CatLower, CatA>>
    /\ call.ret = <<CatA, CatLower>>

\* C16: after a successful load the values getCategories returns are the
\* category values of the catalog records: every returned value is the
\* category of a record, and every record's category is returned.
C16_CategoriesAreThoseOfTheRecords ==
    GotCategories
        => Elements(call.ret) = {CategoryOf(allGames[i]) : i \in 1..Len(allGames)}

\* The filter set {category: c}; an undefined c is a filter set without the
\* field.
CategoryFilterFor(c) == IF c = Undefined THEN <<>> ELSE [category |-> c]

\* The records of the catalog that filterGames returns for category c.
CategoryPart(c) == FilterGames(allGames, CategoryFilterFor(c))

\* C14 as stated: for every value c getCategories returns,
\* filterGames(catalog, {category: c}) holds only records of category c, and
\* every record of the catalog is in the result of exactly one value.
C14_CategoryResultsPartition ==
    GotCategories
        => /\ \A c \in Elements(call.ret) :
                  /\ ~CategoryPart(c).threw
                  /\ \A g \in Elements(CategoryPart(c).value) : CategoryOf(g) = c
           /\ \A g \in Elements(allGames) :
                  Cardinality({c \in Elements(call.ret) :
                                  g \in Elements(CategoryPart(c).value)}) = 1

\* c is a category name that filterGames takes as a constraint: a string that
\* is not empty.
IsConstraint(c) == c # Undefined /\ c # <<>>

\* C14 amended: for every non-empty category c the result holds exactly the
\* records of category c, in catalog order, so the results for the non-empty
\* values getCategories returns are disjoint and hold between them exactly
\* the records with a non-empty category; for '' and undefined the result is
\* the whole catalog.
C14_NamedCategoryResultsPartition ==
    GotCategories
        => /\ \A c \in GroupNames \cup Elements(call.ret) :
                  CategoryPart(c) =
                      IF IsConstraint(c)
                      THEN Return(SelectSeq(allGames, LAMBDA g : CategoryOf(g) = c))
                      ELSE Return(allGames)
           /\ \A g \in Elements(allGames) :
                  Cardinality({c \in Elements(call.ret) :
                                  /\ IsConstraint(c)
                                  /\ g \in Elements(CategoryPart(c).value)})
                      = IF IsConstraint(CategoryOf(g)) THEN 1 ELSE 0

C14_Witness ==
    /\ GotCategories
    /\ call.ret = <<CatA, CatLower>>
    /\ Len(allGames) = 4
    /\ Len(CategoryPart(CatA).value) = 2
    /\ Len(CategoryPart(CatLower).value) = 2

\* C28: every call of loadGamesData returns true or false, and a call that
\* returns false leaves the catalog and the category set as they were before
\* the call.
C28_FailedLoadChangesNothing ==
    [][call' = call
           => /\ dataLoaded' \in {"true", "false"}
              /\ dataLoaded' = "false"
                     => allGames' = allGames /\ categories' = categories]_vars

\* The handlers that invoke searchGames and filterGames.
EngineHandlers == {"handleSearch", "handleFilter", "clearFilters"}

\* C21: a handler that invokes searchGames and filterGames runs only while the
\* most recent loadGamesData has returned true.
C21_EngineRunsOnlyAfterLoadSucceeded ==
    handler.name \in EngineHandlers => dataLoaded = "true"

\* A document every group of which has games.
WellFormed(doc) ==
    /\ Has(doc, "categories")
    /\ \A i \in 1..Len(doc.categories) : Has(doc.categories[i], "games")

\* The catalog and the category set are those of doc: its games, denormalized,
\* sorted by name, and the names of its groups.
IsLoadOf(doc) ==
    /\ WellFormed(doc)
    /\ [threw |-> FALSE, value |-> allGames]
           \in ArraySort(InDocumentOrder(doc.categories))
    /\ categories = ForEachCategory(doc.categories, <<>>, <<>>).categories

\* C22: no step of searchGames, filterGames, getCategories or
\* applyFiltersAndSearch changes the catalog, which stays the sorted flattening
\* of the document it was loaded from.
C22_OperationsLeaveCatalog ==
    /\ [][allGames' = allGames]_vars
    /\ [](IsLoadOf(response.data))

C22_Witness ==
    /\ call.op = "filterGames"
    /\ handler.name = "handleSearch"
    /\ filteredGames # allGames

C24_RenderedIsFilterOfSearch ==
    (/\ location.page = "index"
     /\ dataLoaded = "true"
     /\ \A i \in DOMAIN timeout : timeout[i] = "none")
        => LET expected ==
                   SearchAndFilter(searchInput, categoryFilter, difficultyFilter)
           IN (~expected.threw /\ ~RenderGames(expected.value).threw)
                  => rendered = expected.value

\* C25: the category selector lists no category twice, and after a load that
\* succeeded its categories are those of getCategories.
C25_SelectorListsEachCategoryOnce ==
    /\ \A i, j \in DOMAIN options : options[i] = options[j] => i = j
    /\ (location.page = "index" /\ dataLoaded = "true")
           => Elements(options) = Elements(GetCategories)

\* C26: a click on the theme toggle changes the applied theme: to light when
\* it was dark, to dark otherwise.
C26_ClickTogglesTheme ==
    [][handler'.name = "toggleTheme" => dataTheme' = ToggleTheme(dataTheme)]_vars

\* C27: once initTheme has run the saved theme is the applied theme, also
\* after every click on the toggle; and a page that loads applies the theme
\* saved before, light when none is saved.
C27_SavedThemeIsAppliedTheme ==
    /\ [](clickListeners > 0 => localStorage = dataTheme)
    /\ [][(readyState = "loading" /\ readyState' = "interactive")
              => dataTheme' = IF localStorage = "null" THEN "light"
                              ELSE localStorage]_vars

C27_Witness ==
    /\ location.page = "game"
    /\ clickListeners > 0
    /\ handler.name = "none"
    /\ dataTheme = "dark"
    /\ localStorage = "dark"

DetailsDone ==
    location.page = "game" /\ readyState = "interactive" /\ InFlight = 0

\* C30: the game page displays a game only when the load succeeded and the URL
\* has a non-empty id, and the game is the catalog record with that id; when
\* initGameDetails has finished the page displays either that game or an
\* error, and it is an error whenever the load failed, the id is missing, no
\* record has the id or displaying the record raised.
C30_GameShownOnlyForItsId ==
    /\ gameContent.kind = "game"
           => /\ location.page = "game"
              /\ dataLoaded = "true"
              /\ Has(location, "id") /\ location.id # EmptyId
              /\ gameContent.game \in Elements(allGames)
              /\ gameContent.game.id = location.id
    /\ DetailsDone
           => /\ gameContent.kind \in {"game", "error"}
              /\ gameContent.kind = "error"
                     <=> \/ dataLoaded = "false"
                         \/ ~Has(location, "id")
                         \/ location.id = EmptyId
                         \/ \A g \in Elements(allGames) : g.id # location.id
                         \/ \E g \in Elements(allGames) :
                                g.id = location.id /\ DisplayThrows(g)

C30_Witness ==
    /\ DetailsDone
    /\ gameContent.kind = "game"
    /\ gameContent.game = Game1

====
